---- MODULE Spec2Model ----
(***************************************************************************)
(* Model of the build/watch orchestrator of src/src/build.ts: prepare,     *)
(* writeTypes, build, _build, startRollupWatcher and _watch.               *)
(*                                                                         *)
(* JavaScript runs one handler at a time: an action is the code that runs  *)
(* between two suspension points (an await, or the return of a callback).  *)
(* The bundler, the middleware scanner, the hook bus and the filesystem    *)
(* are the environment: they deliver events, lists and completions         *)
(* nondeterministically.                                                   *)
(***************************************************************************)
EXTENDS Integers, Sequences, FiniteSets, TLC

\* ------------------------------------------------------------------ bounds
\* middleware-change notifications the scanner delivers in one run
MaxNotify == 2
\* bundler events the watch sessions emit in one run
MaxEvents == 2
\* characters of a directory path given to prepare
MaxPathLen == 4
\* characters of the preview command, and of the deploy command
MaxCmdLen == 5
MaxDeployLen == 1
\* descriptors in the scanned list and in the static list given to writeTypes
MaxScanned == 2
MaxStatic == 1

\* ----------------------------------------------------------------- strings
\* A string is a sequence of one-character strings.

\* String.prototype.startsWith
StartsWith(s, p) == Len(p) <= Len(s) /\ SubSeq(s, 1, Len(p)) = p

Max(a, b) == IF a >= b THEN a ELSE b

\* A value that may be a string: undefined, or the string `value`.
UndefinedValue == [isString |-> FALSE, value |-> <<>>]
StringValue(s) == [isString |-> TRUE, value |-> s]

\* --------------------------------------------------------------- variables
VARIABLES
  dev,               \* nitro.options.dev
  outputDir,         \* nitro.options.output.dir
  publicDir,         \* nitro.options.output.publicDir
  serverDir,         \* nitro.options.output.serverDir
  commands,          \* nitro.options.commands
  optMiddleware,     \* nitro.options.middleware (statically configured)
  scannedMiddleware, \* nitro.scannedMiddleware
  rollupConfig,      \* nitro.options.rollupConfig
  pc,                \* where the running async function is suspended
  result,            \* the promise returned by build / prepare / writeTypes
  error,             \* the error a rejected promise carries
  ses,               \* the bundler watch sessions and _watch's `watcher`
  subscribed,        \* scanMiddleware's onChange callback is registered
  initialScan,       \* the list the scan issued by _watch/_build will return
  hooks,             \* calls of nitro.hooks.callHook, per hook name
  wtCalls,           \* calls of writeTypes
  pendingWrites,     \* writes of nitro.d.ts that were started and not settled
  typesFile,         \* contents of <buildDir>/nitro.d.ts
  bundleWritten,     \* build.write has written the server bundle
  manifestFile,      \* contents of <output.dir>/nitro.json
  cleaned,           \* the directories cleanupDir was called on, in order
  restartSteps,      \* the steps of the most recent restart, in order
  hookCalls,         \* the hooks the most recent handler that called one called
  logs,              \* the success and error messages logged so far
  latest,            \* the list of the most recently issued scan
  nNotify,           \* notifications delivered
  nAdd,              \* notifications of kind add or addDir delivered
  nEvents,           \* bundler events handled
  nEnd,              \* END events handled
  errorSeen,         \* the alive session: "none", "error" (it emitted ERROR),
                     \* "end after error" (and later END)
  writeFailed,       \* a write of nitro.d.ts failed
  vfs,               \* nitro.vfs[htmlTemplate.src]
  disk,              \* the file htmlTemplate.src (undefined: it cannot be read)
  htmlContents,      \* htmlTemplate.contents
  readContents,      \* the contents build read, before any hook saw them
  diskRead,          \* fse.readFile was called on htmlTemplate.src
  templateFile,      \* contents of htmlTemplate.dst
  overlapped,        \* the hook calls whose promise was dropped and that may
                     \* be running when the handler calls its next hook
  terminated         \* the process was told to shut down

optVars == <<dev, outputDir, publicDir, serverDir, commands, optMiddleware>>
fsVars == <<typesFile, bundleWritten, manifestFile, cleaned>>
histVars == <<nNotify, nAdd, nEvents, nEnd, errorSeen>>
logVars == <<restartSteps, hookCalls, logs>>
tplVars == <<vfs, disk, htmlContents, readContents, diskRead, templateFile>>
extVars == <<tplVars, overlapped, terminated>>
vars == <<dev, outputDir, publicDir, serverDir, commands, optMiddleware,
          scannedMiddleware, rollupConfig, pc, result, error, ses, subscribed,
          initialScan, hooks, wtCalls, pendingWrites, typesFile, bundleWritten,
          manifestFile, cleaned, restartSteps, hookCalls, logs, latest, nNotify, nAdd, nEvents, nEnd,
          errorSeen, writeFailed, vfs, disk, htmlContents, readContents, diskRead,
          templateFile, overlapped, terminated>>

\* ------------------------------------------------- middleware descriptors
\* A descriptor is {route, handle}; a handle is a file path (a string) or an
\* inline function. A file path is kept as its directory segments, the name
\* of its last segment before the final dot, and the characters after that
\* dot (empty: the last segment has no dot).
LowerLetters ==
  {"a", "b", "c", "d", "e", "f", "g", "h", "i", "j", "k", "l", "m", "n", "o",
   "p", "q", "r", "s", "t", "u", "v", "w", "x", "y", "z"}

FileHandle(segs, name, ext) ==
  [kind |-> "string", segs |-> segs, name |-> name, ext |-> ext]
FunctionHandle == [kind |-> "function", segs |-> <<>>, name |-> "", ext |-> <<>>]

Mw(route, handle) == [route |-> route, handle |-> handle]

\* nitro.options.buildDir, as its segments
BuildDirSegs == <<"b">>

\* typeof mw.handle === 'string'
IsStringHandle(h) == h.kind = "string"

\* length of the longest common prefix of two segment sequences
RECURSIVE CommonLen(_, _)
CommonLen(a, b) ==
  IF a = <<>> \/ b = <<>> \/ Head(a) # Head(b) THEN 0
  ELSE 1 + CommonLen(Tail(a), Tail(b))

RECURSIVE Ups(_)
Ups(n) == IF n = 0 THEN <<>> ELSE <<"..">> \o Ups(n - 1)

\* relative(from, to) of pathe, on the directory segments of `to`: one ".."
\* per segment of `from` below the common ancestor, then the rest of `to`
Relative(from, h) ==
  LET k == CommonLen(from, h.segs)
  IN [h EXCEPT !.segs = Ups(Len(from) - k) \o SubSeq(h.segs, k + 1, Len(h.segs))]

\* .replace(/\.[a-z]+$/, ''): a final dot followed only by lower-case letters
\* (at least one) is removed with them
StripExtension(h) ==
  IF Len(h.ext) > 0 /\ \A i \in 1..Len(h.ext) : h.ext[i] \in LowerLetters
  THEN [h EXCEPT !.ext = <<>>]
  ELSE h

\* `Awaited<ReturnType<typeof import('${relativePath}').default>>`
TypeExpression(relativePath) ==
  [awaitedReturnTypeOfImport |->
     [segs |-> relativePath.segs, name |-> relativePath.name, ext |-> relativePath.ext]]

\* as PushRouteType, with the bucket of a known route replaced, not extended
PushRouteTypeDropBucket(routeTypes, route, t) ==
  IF \E i \in 1..Len(routeTypes) : routeTypes[i].route = route
  THEN [i \in 1..Len(routeTypes) |->
          IF routeTypes[i].route = route
          THEN [route |-> route, types |-> <<t>>]
          ELSE routeTypes[i]]
  ELSE Append(routeTypes, [route |-> route, types |-> <<t>>])

\* routeTypes[route] = routeTypes[route] || []; routeTypes[route].push(t).
\* routeTypes is kept as the sequence of its entries in insertion order, the
\* order Object.entries gives for keys that are not integer-like (a route is a
\* URL path).
PushRouteType(routeTypes, route, t) ==
  IF \E i \in 1..Len(routeTypes) : routeTypes[i].route = route
  THEN [i \in 1..Len(routeTypes) |->
          IF routeTypes[i].route = route
          THEN [route |-> route, types |-> Append(routeTypes[i].types, t)]
          ELSE routeTypes[i]]
  ELSE Append(routeTypes, [route |-> route, types |-> <<t>>])

\* the loop `for (const mw of middleware)` of writeTypes
RECURSIVE RouteTypesLoop(_, _)
RouteTypesLoop(middleware, routeTypes) ==
  IF middleware = <<>> THEN routeTypes
  ELSE LET mw == Head(middleware)
       IN IF ~IsStringHandle(mw.handle)
          THEN RouteTypesLoop(Tail(middleware), routeTypes)
          ELSE RouteTypesLoop(
                 Tail(middleware),
                 PushRouteType(routeTypes, mw.route,
                   TypeExpression(StripExtension(Relative(BuildDirSegs, mw.handle)))))

\* [...nitro.scannedMiddleware, ...nitro.options.middleware]
CombinedMiddleware(scanned, static) == scanned \o static

\* `    '${path}': ${types.join(' | ')}`
EntryLine(entry) == [property |-> entry.route, union |-> entry.types]

\* the lines of nitro.d.ts; the file's contents are these lines joined by
\* '\n', kept here as the sequence of lines
TypesLines(scanned, static) ==
  LET routeTypes == RouteTypesLoop(CombinedMiddleware(scanned, static), <<>>)
  IN <<"// Generated by nitro",
       "declare module 'nitopack' {",
       "  type Awaited<T> = T extends PromiseLike<infer U> ? Awaited<U> : T",
       "  interface InternalApi {">>
     \o [i \in 1..Len(routeTypes) |-> EntryLine(routeTypes[i])]
     \o <<"  }", "}", "export {}">>

\* the lines before and after the entries
HeaderLines == 4
FooterLines == 3

\* ------------------------------------------------------------ watch mode
\* The lists the middleware scanner can deliver.
ApiX == Mw("/a", FileHandle(<<"b", "api">>, "x", <<"t", "s">>))
ApiY == Mw("/a", FileHandle(<<"s", "api">>, "y", <<"j", "s">>))
ScanLists == {<<ApiX>>, <<ApiX, ApiY>>}

\* The event kinds the scanner's file watcher reports.
EventKinds == {"add", "addDir", "change", "unlink"}

\* The codes of the bundler's watch events.
EventCodes == {"START", "BUNDLE_START", "END", "ERROR"}

\* as IsRestartEvent, without addDir
IsRestartEventAddOnly(event) == event \in {"add"}

\* as IsRestartEvent, with unlink
IsRestartEventAnyKind(event) == event \in {"add", "addDir", "unlink"}

\* ['add', 'addDir'].includes(event)
IsRestartEvent(event) == event \in {"add", "addDir"}

\* ses: the sessions rollup.watch has opened. alive: opened and not closed;
\* watcher: the session _watch's variable `watcher` holds; start: the `start`
\* of that session's event handler (FALSE: undefined); peak: the largest
\* number of sessions that were alive at the same instant; config: the
\* configuration rollup.watch was given for that session.
NoSessions ==
  [alive |-> {}, watcher |-> 0, opened |-> 0, closed |-> 0, start |-> FALSE,
   peak |-> 0, config |-> "unset"]

\* as StartRollupWatcher, with the configuration computed again for every
\* session after the first
StartRollupWatcherFreshConfig(s) ==
  LET id == s.opened + 1
  IN [s EXCEPT !.alive = @ \cup {id}, !.watcher = id, !.opened = id,
               !.start = FALSE,
               !.peak = Max(@, Cardinality(s.alive \cup {id})),
               !.config = IF id = 1 THEN rollupConfig ELSE "recomputed"]

\* watcher = startRollupWatcher(nitro): rollup.watch(nitro.options.rollupConfig)
\* opens a session whose handler has its own, unset, `start`
StartRollupWatcher(s) ==
  LET id == s.opened + 1
  IN [s EXCEPT !.alive = @ \cup {id}, !.watcher = id, !.opened = id,
               !.start = FALSE,
               !.peak = Max(@, Cardinality(s.alive \cup {id})),
               !.config = rollupConfig]

\* watcher.close(): the session is closed when the call returns
WatcherClose(s) == [s EXCEPT !.alive = @ \ {s.watcher}, !.closed = @ + 1]

\* writeTypes(nitro) up to its await: the lines are computed from the lists
\* the context holds now, and the write of nitro.d.ts is started.
\* w: [scannedMiddleware, ses, pendingWrites, wtCalls, steps]
WriteTypes(w, static, awaited) ==
  [w EXCEPT !.wtCalls = @ + 1,
            !.pendingWrites = @ \cup
               {[id |-> w.wtCalls + 1,
                 contents |-> TypesLines(w.scannedMiddleware, static),
                 awaited |-> awaited]},
            !.steps = Append(@, "writeTypes")]

\* as OnChange, with the new session opened before the old one is closed
OnChangeOpenBeforeClose(w, static, middleware, event) ==
  LET w1 == [w EXCEPT !.scannedMiddleware = middleware]
  IN IF IsRestartEvent(event)
     THEN LET old == w1.ses.watcher
              w2 == [w1 EXCEPT !.ses = StartRollupWatcher(@),
                               !.steps = Append(@, "open")]
              w3 == WriteTypes(w2, static, FALSE)
          IN [w3 EXCEPT !.ses.alive = @ \ {old},
                        !.ses.closed = @ + 1,
                        !.steps = Append(@, "close")]
     ELSE w1

\* the callback _watch passes to scanMiddleware
OnChange(w, static, middleware, event) ==
  LET w1 == [w EXCEPT !.scannedMiddleware = middleware]
  IN IF IsRestartEvent(event)
     THEN LET w2 == [w1 EXCEPT !.ses = WatcherClose(@),
                               !.steps = Append(@, "close")]
              w3 == WriteTypes(w2, static, FALSE)
          IN [w3 EXCEPT !.ses = StartRollupWatcher(@),
                        !.steps = Append(@, "open")]
     ELSE w1

\* consola.success('Nitro built', start ? `in ${Date.now() - start} ms` : '')
BuiltMessage(start) == IF start THEN "Nitro built in ms" ELSE "Nitro built"

\* as OnEvent, with ERROR closing the session
OnEventErrorCloses(e, code) ==
  CASE code = "START" -> e
    [] code = "BUNDLE_START" -> [e EXCEPT !.ses.start = TRUE]
    [] code = "END" ->
         [e EXCEPT !.hooks["nitro:compiled"] = @ + 1,
                   !.hooks["nitro:dev:reload"] = @ + 1,
                   !.calls = @ \o <<"nitro:compiled", "nitro:dev:reload">>,
                   !.overlapped = {"nitro:compiled"},
                   !.logs = @ \cup {BuiltMessage(e.ses.start)}]
    [] code = "ERROR" -> [e EXCEPT !.ses = WatcherClose(@),
                                   !.logs = @ \cup {"Rollup error"}]

\* as OnEvent, with ERROR calling the dev:reload hook
OnEventReloadOnError(e, code) ==
  CASE code = "START" -> e
    [] code = "BUNDLE_START" -> [e EXCEPT !.ses.start = TRUE]
    [] code = "END" ->
         [e EXCEPT !.hooks["nitro:compiled"] = @ + 1,
                   !.hooks["nitro:dev:reload"] = @ + 1,
                   !.calls = @ \o <<"nitro:compiled", "nitro:dev:reload">>,
                   !.overlapped = {"nitro:compiled"},
                   !.logs = @ \cup {BuiltMessage(e.ses.start)}]
    [] code = "ERROR" -> [e EXCEPT !.hooks["nitro:dev:reload"] = @ + 1,
                                   !.calls = Append(@, "nitro:dev:reload"),
                                   !.logs = @ \cup {"Rollup error"}]

\* the handler startRollupWatcher registers with watcher.on('event', ...).
\* e: [ses, hooks, calls, logs, dropped, overlapped]. On END the promise of
\* callHook('nitro:compiled') is dropped: the handler goes on while the hook's
\* listeners may still run, and calls the next hook over them.
OnEvent(e, code) ==
  CASE code = "START" -> e
    [] code = "BUNDLE_START" -> [e EXCEPT !.ses.start = TRUE]
    [] code = "END" ->
         LET e1 == [e EXCEPT !.hooks["nitro:compiled"] = @ + 1,
                             !.calls = Append(@, "nitro:compiled"),
                             !.dropped = @ \cup {"nitro:compiled"}]
             e2 == [e1 EXCEPT !.logs = @ \cup {BuiltMessage(e.ses.start)}]
         IN [e2 EXCEPT !.hooks["nitro:dev:reload"] = @ + 1,
                       !.calls = Append(@, "nitro:dev:reload"),
                       !.overlapped = e2.dropped]
    [] code = "ERROR" -> [e EXCEPT !.logs = @ \cup {"Rollup error"}]

NoHooks ==
  [h \in {"nitro:document", "nitro:rollup:before", "nitro:compiled",
          "nitro:dev:reload"} |-> 0]

\* ------------------------------------------------------------- the build
\* The awaits of build and _build whose rejection is not caught.
AwaitedSteps ==
  {"document_hook", "template_write", "before_hook", "bundle_write",
   "manifest_write", "print_tree", "compiled_hook"}

\* ------------------------------------------------------ the template step
\* The positions of build before `nitro.options.rollupConfig = ...`.
TemplateSteps == {"template", "template_read", "document_hook", "template_write"}

\* a value `v ||` does not pass over: a string that is not empty
Truthy(v) == v.isString /\ v.value # <<>>

\* what fse.readFile(htmlTemplate.src, 'utf-8').catch(() => '') resolves to
ReadFileOrEmpty(file) == IF file.isString THEN file.value ELSE <<>>

\* as HasContents, for a step that compiles empty contents too
HasContentsAlways(contents) == TRUE

\* `if (htmlTemplate.contents)`
HasContents(contents) == contents # <<>>

\* serializeTemplate of ./utils: the source text of a string literal whose
\* value is `contents`
SerializeTemplate(contents) == [literalOf |-> contents]

\* 'export default ' + serializeTemplate(htmlTemplate.contents)
Compiled(contents) == [exportDefault |-> SerializeTemplate(contents)]

\* what a listener of nitro:document can leave in htmlTemplate.contents
DocumentRewrites(contents) == {contents, <<>>, <<"r">>}

\* htmlTemplate.contents is set: the nitro:document hook is called and
\* awaited, or build goes on to the bundler configuration
ContentsRead(contents) ==
  /\ htmlContents' = contents
  /\ readContents' = contents
  /\ IF HasContents(contents)
     THEN /\ hooks' = [hooks EXCEPT !["nitro:document"] = @ + 1]
          /\ hookCalls' = <<"nitro:document">>
          /\ pc' = "document_hook"
     ELSE /\ pc' = "build"
          /\ UNCHANGED <<hooks, hookCalls>>

\* build up to its first await: `nitro.vfs[htmlTemplate.src] || await
\* fse.readFile(...)`. An entry that is not passed over is the contents;
\* otherwise the file is read.
TemplateStart ==
  /\ pc = "template"
  /\ IF Truthy(vfs)
     THEN /\ ContentsRead(vfs.value)
          /\ UNCHANGED diskRead
     ELSE /\ diskRead' = TRUE
          /\ pc' = "template_read"
          /\ UNCHANGED <<htmlContents, readContents, hooks, hookCalls>>
  /\ UNCHANGED <<optVars, fsVars, histVars, vfs, disk, templateFile, overlapped,
                 terminated, scannedMiddleware, rollupConfig, result, error, ses,
                 subscribed, initialScan, wtCalls, pendingWrites, latest,
                 writeFailed, restartSteps, logs>>

\* the read settled: the contents are those of the file, or '' when the read
\* failed
TemplateRead ==
  /\ pc = "template_read"
  /\ ContentsRead(ReadFileOrEmpty(disk))
  /\ UNCHANGED <<optVars, fsVars, histVars, vfs, disk, diskRead, templateFile,
                 overlapped, terminated, scannedMiddleware, rollupConfig, result,
                 error, ses, subscribed, initialScan, wtCalls, pendingWrites, latest,
                 writeFailed, restartSteps, logs>>

\* the nitro:document hook returned, its listeners having rewritten the
\* contents or not: the module is compiled and its write started
DocumentHookDone ==
  /\ pc = "document_hook"
  /\ \E c \in DocumentRewrites(htmlContents) : htmlContents' = c
  /\ pc' = "template_write"
  /\ UNCHANGED <<optVars, fsVars, histVars, logVars, vfs, disk, readContents,
                 diskRead, templateFile, overlapped, terminated, scannedMiddleware,
                 rollupConfig, result, error, ses, subscribed, initialScan, hooks,
                 wtCalls, pendingWrites, latest, writeFailed>>

\* the compiled module is written to htmlTemplate.dst
TemplateWriteDone ==
  /\ pc = "template_write"
  /\ templateFile' = <<Compiled(htmlContents)>>
  /\ pc' = "build"
  /\ UNCHANGED <<optVars, fsVars, histVars, logVars, vfs, disk, htmlContents,
                 readContents, diskRead, overlapped, terminated, scannedMiddleware,
                 rollupConfig, result, error, ses, subscribed, initialScan, hooks,
                 wtCalls, pendingWrites, latest, writeFailed>>

\* build, from `nitro.options.rollupConfig = getRollupConfig(nitro)` to the
\* await of the nitro:rollup:before hook
BuildStart ==
  /\ pc = "build"
  /\ rollupConfig' = "getRollupConfig"
  /\ hooks' = [hooks EXCEPT !["nitro:rollup:before"] = @ + 1]
  /\ hookCalls' = <<"nitro:rollup:before">>
  /\ pc' = "before_hook"
  /\ UNCHANGED <<optVars, extVars, fsVars, histVars, scannedMiddleware, result, error, ses,
                 subscribed, initialScan, wtCalls, pendingWrites, latest, writeFailed,
                 restartSteps, logs>>

\* the hook returned: `nitro.options.dev ? _watch(nitro) : _build(nitro)`, up
\* to the await of scanMiddleware. _watch opens the first session and
\* registers its callback; the scan returns the list of the directory as read
\* now.
Dispatch ==
  /\ pc = "before_hook"
  /\ \E list \in ScanLists :
       /\ initialScan' = list
       /\ latest' = list
  /\ IF dev
     THEN /\ ses' = StartRollupWatcher(ses)
          /\ subscribed' = TRUE
          /\ pc' = "watch_scan"
     ELSE /\ pc' = "build_scan"
          /\ UNCHANGED <<ses, subscribed>>
  /\ UNCHANGED <<optVars, extVars, fsVars, histVars, logVars, scannedMiddleware, rollupConfig,
                 result, error, hooks, wtCalls, pendingWrites, writeFailed>>

\* the scan returned: `nitro.scannedMiddleware = await scanMiddleware(...)`,
\* then `await writeTypes(nitro)` up to the await of its write
ScanReturn ==
  /\ pc \in {"watch_scan", "build_scan"}
  /\ LET w0 == [scannedMiddleware |-> initialScan, ses |-> ses,
                pendingWrites |-> pendingWrites, wtCalls |-> wtCalls,
                steps |-> <<>>]
         w == WriteTypes(w0, optMiddleware, TRUE)
     IN /\ scannedMiddleware' = w.scannedMiddleware
        /\ pendingWrites' = w.pendingWrites
        /\ wtCalls' = w.wtCalls
  /\ initialScan' = <<>>
  /\ pc' = IF pc = "watch_scan" THEN "watch_types" ELSE "build_types"
  /\ UNCHANGED <<optVars, extVars, fsVars, histVars, logVars, rollupConfig, result, error, ses,
                 subscribed, hooks, latest, writeFailed>>

\* an exported call of writeTypes(nitro) on a context whose lists are set
CallWriteTypes ==
  /\ pc = "types"
  /\ LET w0 == [scannedMiddleware |-> scannedMiddleware, ses |-> ses,
                pendingWrites |-> pendingWrites, wtCalls |-> wtCalls,
                steps |-> <<>>]
         w == WriteTypes(w0, optMiddleware, TRUE)
     IN /\ pendingWrites' = w.pendingWrites
        /\ wtCalls' = w.wtCalls
  /\ pc' = "types_write"
  /\ UNCHANGED <<optVars, extVars, fsVars, histVars, logVars, scannedMiddleware, rollupConfig,
                 result, error, ses, subscribed, initialScan, hooks, latest,
                 writeFailed>>

\* where the function that awaits writeTypes goes on when the write is done
AfterTypes(at) ==
  CASE at = "watch_types" -> [pc |-> "done", result |-> "resolved"]
    [] at = "types_write" -> [pc |-> "done", result |-> "resolved"]
    [] at = "build_types" -> [pc |-> "rollup", result |-> "pending"]

\* a started write of nitro.d.ts succeeds: the file holds the contents of that
\* call. Started writes settle in any order. The awaited write resumes its
\* caller: _watch returns, writeTypes returns, or _build calls rollup.rollup.
WriteFileDone(wr) ==
  /\ wr \in pendingWrites
  /\ pendingWrites' = pendingWrites \ {wr}
  /\ typesFile' = wr.contents
  /\ IF wr.awaited
     THEN /\ pc' = AfterTypes(pc).pc
          /\ result' = AfterTypes(pc).result
     ELSE UNCHANGED <<pc, result>>
  /\ UNCHANGED <<optVars, extVars, histVars, logVars, bundleWritten, manifestFile, cleaned,
                 scannedMiddleware, rollupConfig, error, ses, subscribed,
                 initialScan, hooks, wtCalls, latest, writeFailed>>

\* as WriteFileFail, with the failure of the callback's write rejecting build
\* too
WriteFileFailUncaught(wr) ==
  /\ wr \in pendingWrites
  /\ pendingWrites' = pendingWrites \ {wr}
  /\ writeFailed' = TRUE
  /\ pc' = "done"
  /\ result' = "rejected"
  /\ error' = "writeTypes"
  /\ UNCHANGED <<optVars, extVars, fsVars, histVars, logVars,
                 scannedMiddleware, rollupConfig, ses, subscribed, initialScan, hooks,
                 wtCalls, latest>>

\* a started write of nitro.d.ts fails: the awaited one rejects its caller,
\* the one of the callback is given to console.error
WriteFileFail(wr) ==
  /\ wr \in pendingWrites
  /\ pendingWrites' = pendingWrites \ {wr}
  /\ writeFailed' = TRUE
  /\ IF wr.awaited
     THEN /\ pc' = "done"
          /\ result' = "rejected"
          /\ error' = "writeTypes"
          /\ UNCHANGED logs
     ELSE /\ logs' = logs \cup {"console.error"}
          /\ UNCHANGED <<pc, result, error>>
  /\ UNCHANGED <<optVars, extVars, fsVars, histVars, scannedMiddleware, rollupConfig, ses,
                 subscribed, initialScan, hooks, wtCalls, latest, restartSteps,
                 hookCalls>>

\* the scanner calls the callback with the list of a new scan and the kind of
\* the file event
Notify(middleware, event) ==
  /\ subscribed
  /\ nNotify < MaxNotify
  /\ LET w0 == [scannedMiddleware |-> scannedMiddleware, ses |-> ses,
                pendingWrites |-> pendingWrites, wtCalls |-> wtCalls,
                steps |-> <<>>]
         w == OnChange(w0, optMiddleware, middleware, event)
     IN /\ scannedMiddleware' = w.scannedMiddleware
        /\ ses' = w.ses
        /\ pendingWrites' = w.pendingWrites
        /\ wtCalls' = w.wtCalls
        /\ restartSteps' = IF w.steps = <<>> THEN restartSteps ELSE w.steps
        /\ errorSeen' = IF w.ses.watcher = ses.watcher THEN errorSeen ELSE "none"
  /\ latest' = middleware
  /\ nNotify' = nNotify + 1
  /\ nAdd' = IF event \in {"add", "addDir"} THEN nAdd + 1 ELSE nAdd
  /\ UNCHANGED <<optVars, extVars, fsVars, rollupConfig, pc, result, error, subscribed,
                 initialScan, hooks, nEvents, nEnd, writeFailed, hookCalls, logs>>

\* the session that is alive emits an event
BundlerEvent(code) ==
  /\ ses.watcher \in ses.alive
  /\ nEvents < MaxEvents
  /\ LET e == OnEvent([ses |-> ses, hooks |-> hooks, calls |-> <<>>, logs |-> logs,
                       dropped |-> {}, overlapped |-> overlapped],
                      code)
     IN /\ ses' = e.ses
        /\ hooks' = e.hooks
        /\ overlapped' = e.overlapped
        /\ hookCalls' = IF e.calls = <<>> THEN hookCalls ELSE e.calls
        /\ logs' = e.logs
  /\ nEvents' = nEvents + 1
  /\ nEnd' = IF code = "END" THEN nEnd + 1 ELSE nEnd
  /\ errorSeen' = CASE code = "ERROR" -> "error"
                    [] code = "END" /\ errorSeen # "none" -> "end after error"
                    [] OTHER -> errorSeen
  /\ UNCHANGED <<optVars, tplVars, terminated, fsVars, scannedMiddleware,
                 rollupConfig, pc, result, error, subscribed, initialScan, wtCalls,
                 pendingWrites, latest, nNotify, nAdd, writeFailed, restartSteps>>

\* --------------------------------------------------------- one-shot build
\* as RollupCatch, without the rethrow: build is undefined at build.write
RollupCatchNoRethrow(err) ==
  [pc |-> "done", result |-> "rejected",
   error |-> "TypeError: build is undefined", logged |-> {"Rollup error"}]

\* the .catch of rollup.rollup: consola.error('Rollup error: ...'), throw error
RollupCatch(err) ==
  [pc |-> "done", result |-> "rejected", error |-> err,
   logged |-> {"Rollup error"}]

\* rollup.rollup resolved: consola.start, `await build.write(...)`
RollupResolve ==
  /\ pc = "rollup"
  /\ pc' = "bundle_write"
  /\ UNCHANGED <<optVars, extVars, fsVars, histVars, logVars, scannedMiddleware, rollupConfig,
                 result, error, ses, subscribed, initialScan, hooks, wtCalls,
                 pendingWrites, latest, writeFailed>>

\* rollup.rollup rejected with the bundler's error
RollupReject ==
  /\ pc = "rollup"
  /\ LET c == RollupCatch("rollup error")
     IN /\ pc' = c.pc
        /\ result' = c.result
        /\ error' = c.error
        /\ logs' = logs \cup c.logged
  /\ UNCHANGED <<optVars, extVars, fsVars, histVars, scannedMiddleware, rollupConfig, ses,
                 subscribed, initialScan, hooks, wtCalls, pendingWrites, latest,
                 writeFailed, restartSteps, hookCalls>>

\* replaceAll of ./utils: every occurrence of `from` in `input`, found from
\* left to right, is replaced by `to`
RECURSIVE ReplaceAll(_, _, _)
ReplaceAll(input, from, to) ==
  IF Len(input) < Len(from) \/ from = <<>> THEN input
  ELSE IF StartsWith(input, from)
       THEN to \o ReplaceAll(SubSeq(input, Len(from) + 1, Len(input)), from, to)
       ELSE <<Head(input)>> \o ReplaceAll(Tail(input), from, to)

\* rewriteBuildPaths
RewriteBuildPaths(input, dir, to) ==
  IF input.isString THEN StringValue(ReplaceAll(input.value, dir, to))
  ELSE UndefinedValue

\* buildInfo
BuildInfo(cmds, dir) ==
  [date |-> "new Date()",
   commands |-> [preview |-> RewriteBuildPaths(cmds.preview, dir, <<".">>),
                 deploy |-> RewriteBuildPaths(cmds.deploy, dir, <<".">>)]]

\* JSON.stringify(buildInfo, null, 2): a property whose value is undefined is
\* left out. The text is kept as the object it parses to.
JsonStringify(info) ==
  [date |-> info.date,
   commands |-> [k \in {c \in {"preview", "deploy"} : info.commands[c].isString}
                   |-> info.commands[k].value]]

\* as BundleWriteDone, with the write of nitro.json neither made nor awaited
BundleWriteDoneSkipsManifest ==
  /\ pc = "bundle_write"
  /\ bundleWritten' = TRUE
  /\ pc' = "print_tree"
  /\ UNCHANGED <<optVars, extVars, histVars, logVars,
                 typesFile, manifestFile, cleaned, scannedMiddleware, rollupConfig,
                 result, error, ses, subscribed, initialScan, hooks, wtCalls,
                 pendingWrites, latest, writeFailed>>

\* build.write resolved: buildInfo is built and the write of nitro.json started
BundleWriteDone ==
  /\ pc = "bundle_write"
  /\ bundleWritten' = TRUE
  /\ pc' = "manifest_write"
  /\ UNCHANGED <<optVars, extVars, histVars, logVars, typesFile, manifestFile, cleaned,
                 scannedMiddleware, rollupConfig, result, error, ses, subscribed,
                 initialScan, hooks, wtCalls, pendingWrites, latest, writeFailed>>

\* nitro.json is written: consola.success, `await printFSTree(...)`
ManifestWriteDone ==
  /\ pc = "manifest_write"
  /\ manifestFile' = <<JsonStringify(BuildInfo(commands, outputDir))>>
  /\ logs' = logs \cup {"Server built"}
  /\ pc' = "print_tree"
  /\ UNCHANGED <<optVars, extVars, histVars, typesFile, bundleWritten, cleaned,
                 scannedMiddleware, rollupConfig, result, error, ses, subscribed,
                 initialScan, hooks, wtCalls, pendingWrites, latest, writeFailed,
                 restartSteps, hookCalls>>

\* printFSTree returned: `await nitro.hooks.callHook('nitro:compiled', nitro)`
PrintTreeDone ==
  /\ pc = "print_tree"
  /\ hooks' = [hooks EXCEPT !["nitro:compiled"] = @ + 1]
  /\ hookCalls' = <<"nitro:compiled">>
  /\ pc' = "compiled_hook"
  /\ UNCHANGED <<optVars, extVars, fsVars, histVars, scannedMiddleware, rollupConfig, result,
                 error, ses, subscribed, initialScan, wtCalls, pendingWrites, latest,
                 writeFailed, restartSteps, logs>>

\* the hook returned: `return { entry: ... }`
CompiledHookDone ==
  /\ pc = "compiled_hook"
  /\ pc' = "done"
  /\ result' = "resolved"
  /\ UNCHANGED <<optVars, extVars, fsVars, histVars, logVars, scannedMiddleware, rollupConfig,
                 error, ses, subscribed, initialScan, hooks, wtCalls, pendingWrites,
                 latest, writeFailed>>

\* an awaited hook, write or print rejects: nothing catches it
AwaitReject ==
  /\ pc \in AwaitedSteps
  /\ pc' = "done"
  /\ result' = "rejected"
  /\ error' = pc
  /\ UNCHANGED <<optVars, extVars, fsVars, histVars, logVars, scannedMiddleware, rollupConfig,
                 ses, subscribed, initialScan, hooks, wtCalls, pendingWrites, latest,
                 writeFailed>>

\* ---------------------------------------------------------------- prepare
\* what prepare does after the cleanup awaited at `at` is done
\* (publicDir is checked before serverDir)
NextCleanup(at, out, pub, srv) ==
  IF at = "clean_output" /\ ~StartsWith(pub, out) THEN "clean_public"
  ELSE IF at \in {"clean_output", "clean_public"} /\ ~StartsWith(srv, out)
       THEN "clean_server"
       ELSE "done"

CleanupTarget(at) ==
  CASE at = "clean_output" -> outputDir
    [] at = "clean_public" -> publicDir
    [] at = "clean_server" -> serverDir

\* prepare up to its first await: cleanupDir(nitro.options.output.dir)
PrepareStart ==
  /\ pc = "prepare"
  /\ cleaned' = Append(cleaned, outputDir)
  /\ pc' = "clean_output"
  /\ UNCHANGED <<optVars, extVars, histVars, logVars, typesFile, bundleWritten, manifestFile,
                 scannedMiddleware, rollupConfig, result, error, ses, subscribed,
                 initialScan, hooks, wtCalls, pendingWrites, latest, writeFailed>>

\* fse.emptyDir resolved: the next cleanupDir is called, or prepare returns
CleanupDone ==
  /\ pc \in {"clean_output", "clean_public", "clean_server"}
  /\ LET next == NextCleanup(pc, outputDir, publicDir, serverDir)
     IN /\ pc' = next
        /\ IF next = "done"
           THEN /\ result' = "resolved"
                /\ UNCHANGED cleaned
           ELSE /\ cleaned' = Append(cleaned, CleanupTarget(next))
                /\ UNCHANGED result
  /\ UNCHANGED <<optVars, extVars, histVars, logVars, typesFile, bundleWritten, manifestFile,
                 scannedMiddleware, rollupConfig, error, ses, subscribed,
                 initialScan, hooks, wtCalls, pendingWrites, latest, writeFailed>>

\* fse.emptyDir rejected: prepare rejects
CleanupFail ==
  /\ pc \in {"clean_output", "clean_public", "clean_server"}
  /\ pc' = "done"
  /\ result' = "rejected"
  /\ error' = pc
  /\ UNCHANGED <<optVars, extVars, fsVars, histVars, logVars, scannedMiddleware, rollupConfig,
                 ses, subscribed, initialScan, hooks, wtCalls, pendingWrites, latest,
                 writeFailed>>

\* ------------------------------------------------------------- the inputs
\* strings of at most n characters
Strings(chars, n) == UNION {[1..k -> chars] : k \in 0..n}

\* absolute, normalised directory paths: a leading slash, no empty segment,
\* no trailing slash
Paths ==
  {s \in Strings({"/", "o", "p"}, MaxPathLen) :
     /\ Len(s) >= 2
     /\ s[1] = "/"
     /\ s[Len(s)] # "/"
     /\ \A i \in 1..(Len(s) - 1) : ~(s[i] = "/" /\ s[i + 1] = "/")}

\* output directories of the builds whose manifest is looked at
OutDirs == {<<"/", "o">>, <<"/", ".", "o">>}

CommandValues(n) ==
  {UndefinedValue} \cup {StringValue(s) : s \in Strings({"/", ".", "o"}, n)}

Descriptors ==
  {Mw(r, h) : r \in {"/a", "/b"}, h \in {ApiX.handle, ApiY.handle, FunctionHandle}}

MiddlewareLists(n) == UNION {[1..k -> Descriptors] : k \in 0..n}

\* the statically configured list of the builds
StaticList ==
  <<Mw("/f", FunctionHandle), Mw("/a", FileHandle(<<"b", "srv">>, "z", <<"m", "j", "s">>))>>

\* The context as createNitro leaves it, and a call about to start at `at`.
InitContext(d, out, pub, srv, cmds, static, scanned, at) ==
  /\ dev = d
  /\ outputDir = out
  /\ publicDir = pub
  /\ serverDir = srv
  /\ commands = cmds
  /\ optMiddleware = static
  /\ scannedMiddleware = scanned
  /\ rollupConfig = "unset"
  /\ pc = at
  /\ result = "pending"
  /\ error = "none"
  /\ ses = NoSessions
  /\ subscribed = FALSE
  /\ initialScan = <<>>
  /\ hooks = NoHooks
  /\ wtCalls = 0
  /\ pendingWrites = {}
  /\ typesFile = <<>>
  /\ bundleWritten = FALSE
  /\ manifestFile = <<>>
  /\ cleaned = <<>>
  /\ restartSteps = <<>>
  /\ hookCalls = <<>>
  /\ logs = {}
  /\ latest = scanned
  /\ nNotify = 0
  /\ nAdd = 0
  /\ nEvents = 0
  /\ nEnd = 0
  /\ errorSeen = "none"
  /\ writeFailed = FALSE
  /\ htmlContents = <<>>
  /\ readContents = <<>>
  /\ diskRead = FALSE
  /\ templateFile = <<>>
  /\ overlapped = {}
  /\ terminated = FALSE

\* no override and no template file
NoTemplate == vfs = UndefinedValue /\ disk = UndefinedValue

\* the overrides and the template files of the builds: none, empty, one
\* character
TemplateValues(c) == {UndefinedValue, StringValue(<<>>), StringValue(<<c>>)}

\* build(nitro), in development mode without a template and in production
\* mode with a template file
Init ==
  \E d \in BOOLEAN :
    /\ InitContext(d, <<"/", "o">>, <<"/", "o", "/", "p">>, <<"/", "o", "/", "s">>,
                   [preview |-> StringValue(<<"/", "o", "/", "s">>),
                    deploy |-> UndefinedValue],
                   StaticList, <<>>, "template")
    /\ vfs = UndefinedValue
    /\ disk = IF d THEN UndefinedValue ELSE StringValue(<<"d">>)

BuildSteps ==
  \/ BuildStart
  \/ Dispatch
  \/ ScanReturn
  \/ \E wr \in pendingWrites : WriteFileDone(wr)
  \/ \E wr \in pendingWrites : WriteFileFail(wr)
  \/ RollupResolve
  \/ RollupReject
  \/ BundleWriteDone
  \/ ManifestWriteDone
  \/ PrintTreeDone
  \/ CompiledHookDone
  \/ AwaitReject

TemplateActions ==
  \/ TemplateStart
  \/ TemplateRead
  \/ DocumentHookDone
  \/ TemplateWriteDone

Next ==
  \/ TemplateActions
  \/ BuildSteps
  \/ \E middleware \in ScanLists, event \in EventKinds : Notify(middleware, event)
  \/ \E code \in EventCodes : BundlerEvent(code)

Spec == Init /\ [][Next]_vars

\* prepare(nitro), for every choice of the three directories
InitPrepare ==
  \E out \in Paths, pub \in Paths, srv \in Paths :
    /\ InitContext(FALSE, out, pub, srv,
                   [preview |-> UndefinedValue, deploy |-> UndefinedValue],
                   StaticList, <<>>, "prepare")
    /\ NoTemplate

NextPrepare == PrepareStart \/ CleanupDone \/ CleanupFail

SpecPrepare == InitPrepare /\ [][NextPrepare]_vars

\* a production build(nitro), for every output directory and command strings
InitManifest ==
  \E out \in OutDirs, preview \in CommandValues(MaxCmdLen),
     deploy \in CommandValues(MaxDeployLen) :
    /\ InitContext(FALSE, out, out \o <<"/", "p">>, out \o <<"/", "s">>,
                   [preview |-> preview, deploy |-> deploy],
                   StaticList, <<>>, "build")
    /\ NoTemplate

SpecManifest == InitManifest /\ [][BuildSteps]_vars

\* writeTypes(nitro), for every scanned and static list
InitTypes ==
  \E scanned \in MiddlewareLists(MaxScanned), static \in MiddlewareLists(MaxStatic) :
    /\ InitContext(FALSE, <<"/", "o">>, <<"/", "o", "/", "p">>, <<"/", "o", "/", "s">>,
                   [preview |-> UndefinedValue, deploy |-> UndefinedValue],
                   static, scanned, "types")
    /\ NoTemplate

NextTypes ==
  \/ CallWriteTypes
  \/ \E wr \in pendingWrites : WriteFileDone(wr)
  \/ \E wr \in pendingWrites : WriteFileFail(wr)

SpecTypes == InitTypes /\ [][NextTypes]_vars

\* build(nitro) up to the call of the bundler, for every override and
\* template file
InitTemplate ==
  \E d \in BOOLEAN, entry \in TemplateValues("v"), file \in TemplateValues("d") :
    /\ InitContext(d, <<"/", "o">>, <<"/", "o", "/", "p">>, <<"/", "o", "/", "s">>,
                   [preview |-> UndefinedValue, deploy |-> UndefinedValue],
                   StaticList, <<>>, "template")
    /\ vfs = entry
    /\ disk = file

NextTemplate ==
  \/ TemplateActions
  \/ BuildStart
  \/ Dispatch
  \/ AwaitReject

SpecTemplate == InitTemplate /\ [][NextTemplate]_vars

\* The process is told to shut down. build.ts registers nothing for it: the
\* session is held only by the local `watcher` of _watch, which _watch does
\* not return and stores nowhere, and watcher.close() is called by the
\* scanner's callback alone. Nothing of the module runs afterwards.
Shutdown ==
  /\ ~terminated
  /\ terminated' = TRUE
  /\ UNCHANGED <<optVars, tplVars, fsVars, histVars, logVars, overlapped,
                 scannedMiddleware, rollupConfig, pc, result, error, ses, subscribed,
                 initialScan, hooks, wtCalls, pendingWrites, latest, writeFailed>>

\* build(nitro) in a process that can be told to shut down at any moment
NextShutdown ==
  \/ ~terminated /\ Next
  \/ Shutdown

SpecShutdown == Init /\ [][NextShutdown]_vars

\* ----------------------------------------------------------------- claims

\* C1: in watch mode, once the first session is opened, exactly one bundler
\* watch session is alive in every state, it is the one `watcher` holds, and
\* no two sessions were ever alive at the same instant (a restart closes the
\* current session before it opens the next).
OneSessionAlive ==
  ses.opened >= 1 =>
    /\ ses.alive = {ses.watcher}
    /\ Cardinality(ses.alive) = 1
    /\ ses.peak = 1

\* a state after two restarts in which the alive session has emitted an event
OneSessionAliveWitness == ses.opened = 3 /\ nEvents >= 1 /\ ses.watcher = 3

\* C2: every notification of kind add or addDir closes one session, calls
\* writeTypes once and opens one session, in that order and without
\* coalescing: after n of them n + 1 sessions were opened and n closed, and
\* writeTypes was called n times besides the initial call.
RestartPerAddNotification ==
  (dev /\ ses.opened >= 1) =>
    /\ ses.opened = nAdd + 1
    /\ ses.closed = nAdd
    /\ wtCalls = nAdd + (IF pc = "watch_scan" THEN 0 ELSE 1)
    /\ (nAdd > 0 => restartSteps = <<"close", "writeTypes", "open">>)

\* two add/addDir notifications were delivered
RestartPerAddNotificationWitness == nAdd = 2 /\ ses.opened = 3 /\ ses.closed = 2

\* C3: a notification of a kind other than add and addDir changes nothing but
\* the scanned list of the context (no session closed or opened, no
\* writeTypes call, no write started), and no step other than an add/addDir
\* notification closes or opens a session once the first one is open.
OnlyAddRestarts ==
  [][/\ (nNotify' = nNotify + 1 /\ nAdd' = nAdd) =>
          /\ ses' = ses
          /\ wtCalls' = wtCalls
          /\ pendingWrites' = pendingWrites
          /\ typesFile' = typesFile
          /\ restartSteps' = restartSteps
          /\ scannedMiddleware' = latest'
     /\ (nAdd' = nAdd /\ ses.opened >= 1) =>
          /\ ses'.opened = ses.opened
          /\ ses'.closed = ses.closed
          /\ ses'.alive = ses.alive]_vars

\* two notifications of other kinds were delivered, the second with a list
\* that differs from the one the initial scan returned
OnlyAddRestartsWitness ==
  /\ nNotify = 2
  /\ nAdd = 0
  /\ pc = "done"
  /\ ses.opened = 1
  /\ wtCalls = 1
  /\ pendingWrites = {}
  /\ typesFile # TypesLines(scannedMiddleware, optMiddleware)

\* C4: a bundler event that is not END (ERROR among them) leaves the session
\* alive, calls no hook and leaves build's promise as it is; and an END event
\* of a session that emitted ERROR before calls the compiled hook and then
\* the dev:reload hook, as any END does.
ErrorIsNotFatal ==
  [][/\ (nEvents' = nEvents + 1 /\ nEnd' = nEnd) =>
          /\ ses'.alive = ses.alive
          /\ ses'.watcher = ses.watcher
          /\ hooks' = hooks
          /\ hookCalls' = hookCalls
          /\ result' = result
          /\ error' = error
          /\ pc' = pc
     /\ (nEvents' = nEvents + 1 /\ nEnd' = nEnd + 1 /\ errorSeen = "error") =>
          /\ hooks' = [hooks EXCEPT !["nitro:compiled"] = @ + 1,
                                    !["nitro:dev:reload"] = @ + 1]
          /\ hookCalls' = <<"nitro:compiled", "nitro:dev:reload">>
          /\ ses'.alive = ses.alive]_vars

\* the alive session emitted ERROR and then END, and is still alive
ErrorIsNotFatalWitness ==
  /\ errorSeen = "end after error"
  /\ "Rollup error" \in logs
  /\ ses.watcher \in ses.alive
  /\ hooks["nitro:dev:reload"] = 1

\* C5: in watch mode, once every started write of the declarations file has
\* finished (none failed), the file holds the declarations of the list of the
\* most recent scan or notification and the static list.
TypesReflectLatestScan ==
  (dev /\ pc = "done" /\ result = "resolved" /\ pendingWrites = {} /\ ~writeFailed) =>
    typesFile = TypesLines(latest, optMiddleware)

\* C6: when rollup.rollup fails in a production build the error is logged and
\* build rejects with that same error; the bundle and the manifest are not
\* written and the compiled hook is not called.
CompileFailureIsFatal ==
  (~dev /\ "Rollup error" \in logs) =>
    /\ pc = "done"
    /\ result = "rejected"
    /\ error = "rollup error"
    /\ ~bundleWritten
    /\ manifestFile = <<>>
    /\ hooks["nitro:compiled"] = 0
    /\ hookCalls = <<"nitro:rollup:before">>

\* a production build whose compile failed
CompileFailureIsFatalWitness ==
  ~dev /\ "Rollup error" \in logs /\ result = "rejected" /\ wtCalls = 1

\* p is the directory d or lies inside it
IsNestedIn(p, d) == p = d \/ StartsWith(p, d \o <<"/">>)

\* C7: prepare calls cleanupDir once on the output directory, then once on
\* the public directory if and only if it is not nested inside the output
\* directory, then once on the server directory if and only if it is not
\* nested inside the output directory.
CleanupOnlyOutsideOutput ==
  (pc = "done" /\ result = "resolved") =>
    cleaned = <<outputDir>>
              \o (IF IsNestedIn(publicDir, outputDir) THEN <<>> ELSE <<publicDir>>)
              \o (IF IsNestedIn(serverDir, outputDir) THEN <<>> ELSE <<serverDir>>)

\* pat occurs in s
Occurs(s, pat) ==
  \E i \in 1..(Len(s) - Len(pat) + 1) : SubSeq(s, i, i + Len(pat) - 1) = pat

\* C8: the commands of the persisted manifest contain no occurrence of the
\* output directory path, and a command that is not a string is not recorded.
ManifestHasNoOutputDir ==
  manifestFile # <<>> =>
    \A k \in {"preview", "deploy"} :
      IF commands[k].isString
      THEN /\ k \in DOMAIN manifestFile[1].commands
           /\ ~Occurs(manifestFile[1].commands[k], outputDir)
      ELSE k \notin DOMAIN manifestFile[1].commands

\* C9: in watch mode every END event calls the compiled hook once and the
\* dev:reload hook once, compiled first, and no other bundler event calls a
\* hook: each of the two hooks was called as often as END was handled.
HooksPerEnd ==
  dev =>
    /\ hooks["nitro:compiled"] = nEnd
    /\ hooks["nitro:dev:reload"] = nEnd
    /\ hooks["nitro:rollup:before"]
         = (IF pc \in TemplateSteps \cup {"build"} THEN 0 ELSE 1)
    /\ (nEnd > 0 => hookCalls = <<"nitro:compiled", "nitro:dev:reload">>)
    /\ (nEnd = 0 /\ pc \notin TemplateSteps \cup {"build"}
          => hookCalls = <<"nitro:rollup:before">>)

\* an END event and an event of another code were handled
HooksPerEndWitness == dev /\ nEnd = 1 /\ nEvents = 2 /\ hooks["nitro:dev:reload"] = 1

\* the handler expression of a descriptor whose handle is a file path
HandlerExpression(mw) ==
  TypeExpression(StripExtension(Relative(BuildDirSegs, mw.handle)))

\* the descriptors writeTypes reads whose handle is a file path, in order
FileDescriptors ==
  LET IsFile(mw) == IsStringHandle(mw.handle)
  IN SelectSeq(scannedMiddleware \o optMiddleware, IsFile)

\* the entries of the written declarations file
TypesEntries == SubSeq(typesFile, HeaderLines + 1, Len(typesFile) - FooterLines)

\* the index of the first file descriptor of route r
FirstSeen(r) ==
  CHOOSE i \in 1..Len(FileDescriptors) :
    /\ FileDescriptors[i].route = r
    /\ \A j \in 1..(i - 1) : FileDescriptors[j].route # r

\* C10: the written file has one entry per distinct route of the descriptors
\* whose handle is a file path (scanned first, static appended); an entry's
\* type is the handler expressions of the descriptors of its route in order;
\* the entries are in first-seen order of their routes; a descriptor whose
\* handle is not a file path contributes nothing.
OneEntryPerRoute ==
  typesFile # <<>> =>
    /\ Len(typesFile) >= HeaderLines + FooterLines
    /\ {TypesEntries[i].property : i \in 1..Len(TypesEntries)}
         = {FileDescriptors[i].route : i \in 1..Len(FileDescriptors)}
    /\ \A i, j \in 1..Len(TypesEntries) :
         i < j =>
           /\ TypesEntries[i].property # TypesEntries[j].property
           /\ FirstSeen(TypesEntries[i].property) < FirstSeen(TypesEntries[j].property)
    /\ \A i \in 1..Len(TypesEntries) :
         LET OfRoute(mw) == mw.route = TypesEntries[i].property
             ofRoute == SelectSeq(FileDescriptors, OfRoute)
         IN TypesEntries[i].union
              = [k \in 1..Len(ofRoute) |-> HandlerExpression(ofRoute[k])]

\* a written file with a union of two expressions, from lists that hold a
\* descriptor whose handle is a function
OneEntryPerRouteWitness ==
  /\ typesFile # <<>>
  /\ \E i \in 1..Len(TypesEntries) : Len(TypesEntries[i].union) = 2
  /\ \E i \in 1..Len(optMiddleware) : ~IsStringHandle(optMiddleware[i].handle)
  /\ Len(TypesEntries) < Len(scannedMiddleware \o optMiddleware)

\* C11: whenever the override map has an entry for the template source path,
\* whatever the entry's contents are, the contents build reads are those of
\* the entry and the file on disk is not read; the file is read only when the
\* map has no entry for that path.
OverrideEntryWins ==
  /\ (vfs.isString /\ pc # "template") =>
       /\ ~diskRead
       /\ readContents = vfs.value
  /\ (diskRead => ~vfs.isString)

\* the contents the template step has read
TemplateStepRead == pc \notin {"template", "template_read"}

\* C12: the nitro:document hook is called (once) and the compiled module is
\* written if and only if the contents read are not empty, the write being
\* the module compiled from the contents the hook left; with no override and
\* no readable template file the contents are empty, no hook is called, no
\* file is written, nothing is raised and build goes on to the bundler
\* configuration, the nitro:rollup:before hook and the bundler.
DocumentOnlyForContents ==
  /\ hooks["nitro:document"]
       = (IF TemplateStepRead /\ readContents # <<>> THEN 1 ELSE 0)
  /\ (templateFile # <<>> =>
        /\ readContents # <<>>
        /\ templateFile = <<Compiled(htmlContents)>>)
  /\ (pc \notin TemplateSteps /\ error \notin {"document_hook", "template_write"}) =>
       (templateFile # <<>> <=> readContents # <<>>)
  /\ (~vfs.isString /\ ~disk.isString /\ TemplateStepRead) =>
       /\ readContents = <<>>
       /\ htmlContents = <<>>
       /\ hooks["nitro:document"] = 0
       /\ templateFile = <<>>
       /\ error \in {"none", "before_hook"}
       /\ pc \in {"build", "before_hook", "watch_scan", "build_scan", "done"}
       /\ (pc \in {"watch_scan", "build_scan"} =>
             hooks["nitro:rollup:before"] = 1 /\ rollupConfig = "getRollupConfig")

\* a build without override and without template file that has called the
\* nitro:rollup:before hook and opened its watch session
DocumentOnlyForContentsWitness ==
  /\ ~vfs.isString
  /\ ~disk.isString
  /\ diskRead
  /\ pc = "watch_scan"
  /\ ses.opened = 1
  /\ hooks["nitro:rollup:before"] = 1
  /\ templateFile = <<>>

\* C13: in development mode the initial scan has returned and the initial
\* write of the declarations file has completed before the first watch
\* session is opened: whenever a session was opened, writeTypes was called,
\* the scan is no longer awaited and the awaited write is no longer pending.
InitialTypesBeforeFirstSession ==
  (dev /\ ses.opened >= 1) =>
    /\ pc # "watch_scan"
    /\ wtCalls >= 1
    /\ \A wr \in pendingWrites : ~wr.awaited

\* C14: a restart closes the current session, then regenerates the
\* declarations to completion, and only then opens the new session: the step
\* that opens the new session does these in that order and leaves the write
\* the restart started settled (written, or its failure logged).
RestartTypesBeforeOpen ==
  [][nAdd' = nAdd + 1 =>
       /\ restartSteps' = <<"close", "writeTypes", "open">>
       /\ ses'.opened = ses.opened + 1
       /\ \A wr \in pendingWrites' : wr.id # wtCalls']_vars

\* C15: no hook is called while an earlier hook call of the same handler may
\* still be running (on END, nitro:dev:reload is called only after the
\* nitro:compiled call has completed), and a one-shot build resolves only
\* after its nitro:compiled call has completed.
HooksAwaitedSequentially ==
  /\ overlapped = {}
  /\ (nEnd > 0 => hookCalls = <<"nitro:compiled", "nitro:dev:reload">>)
  /\ (~dev /\ result = "resolved") =>
       /\ pc = "done"
       /\ hooks["nitro:compiled"] = 1
       /\ hookCalls = <<"nitro:compiled">>
  /\ (~dev /\ pc = "compiled_hook") => result = "pending"

\* the positions of a production build, in the order _build goes through them
BeforeTypes == TemplateSteps \cup {"build", "before_hook", "build_scan"}
AfterBundle == {"manifest_write", "print_tree", "compiled_hook"}

\* C16: a production build does its steps in order, each after the previous
\* one completed: scan, write of the declarations, rollup.rollup, write of
\* the bundle, write of the manifest, nitro:compiled hook. Nothing of a later
\* step exists before the earlier one is done, the hook is called once, and
\* build resolves only after all of them.
ProductionOrder ==
  ~dev =>
    /\ wtCalls = (IF pc \in BeforeTypes \/ error \in TemplateSteps \cup {"before_hook"}
                  THEN 0 ELSE 1)
    /\ (wtCalls = 1 => scannedMiddleware = latest /\ initialScan = <<>>)
    /\ (typesFile # <<>> => wtCalls = 1 /\ pendingWrites = {})
    /\ (pc \in {"rollup", "bundle_write"} \cup AfterBundle =>
          typesFile = TypesLines(scannedMiddleware, optMiddleware))
    /\ (bundleWritten =>
          /\ typesFile = TypesLines(scannedMiddleware, optMiddleware)
          /\ pc \in AfterBundle \/ (pc = "done" /\ error \in AfterBundle \cup {"none"}))
    /\ (pc \in AfterBundle => bundleWritten)
    /\ (manifestFile # <<>> =>
          /\ bundleWritten
          /\ pc \in AfterBundle \ {"manifest_write"}
             \/ (pc = "done" /\ error \in {"print_tree", "compiled_hook", "none"}))
    /\ (pc \in {"print_tree", "compiled_hook"} => manifestFile # <<>>)
    /\ hooks["nitro:compiled"]
         = (IF manifestFile # <<>> /\ pc # "print_tree" /\ error # "print_tree"
            THEN 1 ELSE 0)
    /\ (result = "resolved" =>
          /\ pc = "done"
          /\ error = "none"
          /\ hooks["nitro:compiled"] = 1
          /\ hookCalls = <<"nitro:compiled">>
          /\ manifestFile # <<>>
          /\ bundleWritten
          /\ typesFile = TypesLines(scannedMiddleware, optMiddleware))

\* a production build that resolved
ProductionOrderWitness ==
  /\ ~dev
  /\ result = "resolved"
  /\ hooks["nitro:compiled"] = 1
  /\ manifestFile # <<>>
  /\ typesFile # <<>>

\* C17: the failure of a write of the declarations file started by a restart
\* is only logged: the step in which it fails puts it in the log and changes
\* neither build's promise nor the sessions nor the restart count; the
\* session the restart opened is alive, and the scanner's callback and the
\* session's handler stay registered, so later notifications and events are
\* handled.
RegenerationFailureIsLogged ==
  /\ []("console.error" \in logs =>
          /\ subscribed
          /\ ses.opened = nAdd + 1
          /\ ses.alive = {ses.watcher}
          /\ nAdd >= 1
          /\ (result = "rejected" => error = "writeTypes" /\ wtCalls > nAdd))
  /\ [][(/\ ~writeFailed
         /\ writeFailed'
         /\ \E wr \in pendingWrites \ pendingWrites' : ~wr.awaited) =>
          /\ logs' = logs \cup {"console.error"}
          /\ pc' = pc
          /\ result' = result
          /\ error' = error
          /\ ses' = ses
          /\ subscribed' = subscribed
          /\ wtCalls' = wtCalls
          /\ nAdd' = nAdd
          /\ restartSteps' = restartSteps]_vars

\* the write of the first restart failed (the one of the second is pending);
\* build resolved, the session of the second restart is alive and an END
\* event was handled
RegenerationFailureIsLoggedWitness ==
  /\ "console.error" \in logs
  /\ \E wr \in pendingWrites : wr.id = wtCalls /\ ~wr.awaited
  /\ Cardinality(pendingWrites) = 1
  /\ result = "resolved"
  /\ nAdd = 2
  /\ ses.watcher = 3
  /\ ses.alive = {3}
  /\ nEnd >= 1

\* C18: in development mode no watch session is alive once the process was
\* told to shut down: the session that was alive (the first one or the one
\* of the latest restart) is closed.
ShutdownClosesSession ==
  (dev /\ terminated) =>
    /\ ses.alive = {}
    /\ ses.closed = ses.opened

\* C19: in watch mode the scanned list of the context is the list the
\* scanner produced most recently, from the first notification or the
\* assignment of the initial scan on, and the initial write of the
\* declarations file is computed from that list: a notification delivered
\* while the initial scan is awaited is not overwritten by the scan's result.
ScannedListIsLatest ==
  [][dev' =>
       /\ (subscribed' /\ (nNotify' >= 1 \/ pc' # "watch_scan")) =>
            scannedMiddleware' = latest'
       /\ (pc = "watch_scan" /\ pc' = "watch_types") =>
            \E wr \in pendingWrites' :
              /\ wr.awaited
              /\ wr.contents = TypesLines(latest, optMiddleware)]_vars

\* build has computed the bundler configuration
ConfigComputed == pc \notin TemplateSteps \cup {"build"} /\ error \notin TemplateSteps

\* C20: the bundler configuration is computed and the nitro:rollup:before
\* hook called exactly once in a build, after the template step and before
\* the bundler is called (rollup.rollup or the first rollup.watch); a restart
\* changes neither, and every session, the first and the restarted ones, is
\* opened with that one configuration.
ConfigComputedOnce ==
  /\ [](/\ hooks["nitro:rollup:before"] = (IF ConfigComputed THEN 1 ELSE 0)
        /\ rollupConfig = (IF ConfigComputed THEN "getRollupConfig" ELSE "unset")
        /\ (ses.opened >= 1 \/ pc \in {"rollup", "bundle_write"} \/ bundleWritten =>
              ConfigComputed /\ pc # "before_hook")
        /\ (ses.opened >= 1 => ses.config = "getRollupConfig"))
  /\ [][/\ (rollupConfig' # rollupConfig
            \/ hooks'["nitro:rollup:before"] # hooks["nitro:rollup:before"]) =>
             /\ pc = "build"
             /\ pc' = "before_hook"
             /\ ses.opened = 0
             /\ wtCalls = 0
        /\ ses'.opened > ses.opened =>
             /\ ses'.config = rollupConfig
             /\ rollupConfig' = rollupConfig
             /\ hooks'["nitro:rollup:before"] = 1
        /\ pc = "template_write" /\ pc' = "build" => rollupConfig = "unset"]_vars

\* two restarts were done
ConfigComputedOnceWitness ==
  /\ dev
  /\ nAdd = 2
  /\ ses.opened = 3
  /\ ses.config = "getRollupConfig"
  /\ hooks["nitro:rollup:before"] = 1

====
